---- MODULE Spec2Model ----
(***************************************************************************)
(* A model of the GGN console downloader: the scan / selection loop and    *)
(* the download loop of downloader.py, and the request pipeline, the rate  *)
(* limiter and download_torrent of lib/ggn_client.py.                      *)
(***************************************************************************)
EXTENDS Integers, Sequences, FiniteSets, TLC

\* ------------------------------------------------------------------ bounds
\* Group identifiers the server may return: 1..NumGroups.
NumGroups == 2
\* Torrent entries the server knows per group.
TorrentsPerGroup == 2
\* Seeder counts range over 0..MaxSeeders.
MaxSeeders == 1
\* Callers other than the downloader make at most MaxCalls calls of
\* download_torrent, or MaxRequests calls of _do_request.
MaxCalls == 2
MaxRequests == 1
\* console_list holds at most MaxConsoles consoles.
MaxConsoles == 2
\* The server holds at most MaxPages non-empty pages, over all categories.
MaxPages == 2

Groups == 1..NumGroups
TorrentIdsOf(g) == {10 * g + k : k \in 1..TorrentsPerGroup}
SeederCounts == 0..MaxSeeders

\* Python's None
None == "None"

\* ------------------------------------------------------- small sequence helpers
RECURSIVE SeqsOver(_, _)
\* the sequences of distinct elements of S of length at most n
SeqsOver(S, n) ==
    IF n = 0 THEN {<< >>}
    ELSE LET shorter == SeqsOver(S, n - 1)
         IN shorter \cup {Append(s, x) : s \in shorter, x \in S}

Range(s) == {s[i] : i \in 1..Len(s)}
Distinct(s) == Cardinality(Range(s)) = Len(s)
DistinctSeqs(S, n) == {s \in SeqsOver(S, n) : Distinct(s)}

VARIABLES
    pc,            \* position of downloader.py's control flow
    console_list,  \* the configured categories
    ci,            \* index in console_list of the console being scanned
    page_number,   \* the page the scan loop requests next
    groupKeys,     \* keys of result not yet iterated (result.items())
    torrentKeys,   \* keys of torrent["Torrents"] not yet iterated
    torrent_data,  \* the candidate map, a dict in insertion order
    requested,     \* per console, the search requests issued: page and outcome
    hist,          \* per group identifier, what the scan has processed so far
    processed,     \* the entry the last step ran the loop body on, if it ran it
    args_dry,      \* args.dry, as argparse stored it
    dl,            \* position of the download loop in torrent_data.items()
    attempts,      \* the group identifiers download_torrent was invoked for
    user,          \* per client instance, its session-user cache _user
    last,          \* per client instance, its last call and what the call did
    req,           \* the last direct call of _do_request or user_profile
    ncalls,        \* the calls other callers have made on the client
    since_reset,   \* the limiter: clock() - last_reset, in seconds, up to Period
    num_calls,     \* the limiter: its counter of calls in the current period
    rpc,           \* position of the caller of _do_request in the decorators
    sleep_left,    \* seconds left of sleep_and_retry's time.sleep
    rcall,         \* the call of _do_request in progress, or the last one
    starts,        \* ages in seconds of the latest starts of the body, newest first
    callers,       \* the instances whose calls have run the body in the current period
    dry_only       \* whether all those calls were dry runs

scanVars == <<pc, console_list, ci, page_number, groupKeys, torrentKeys,
              torrent_data, requested, hist, processed>>
loopVars == <<args_dry, dl, attempts>>
clientVars == <<user, last, req>>
callerVars == <<ncalls>>
rateVars == <<since_reset, num_calls, rpc, sleep_left, rcall, starts, callers, dry_only>>
vars == <<scanVars, loopVars, clientVars, callerVars, rateVars>>

\* ------------------------------------------------------ the server's answers
\* The release title the server lists for a torrent, as a sequence of characters.
TitleOf(tid) ==
    <<"G", ToString(tid \div 10), ":", " ", "[", ToString(tid % 10), "]", "/",
      "\\", "\"", "*", "?", "<", ">", "|", "a">>

\* The entries the server may return under key tid in the "Torrents" of group g.
EntriesOf(g, tid) ==
    [GroupID : {g}, TorrentType : {"Torrent", "Link"}, GameDOXType : {"", "Fix"},
     IsSnatched : BOOLEAN, Seeders : SeederCounts, ReleaseTitle : {TitleOf(tid)}]

\* The keys of a page of search results: group identifiers, in dict order.
PageKeys == DistinctSeqs(Groups, NumGroups)
\* The keys of a group's "Torrents", in dict order.
TorrentKeysOf(g) == DistinctSeqs(TorrentIdsOf(g), TorrentsPerGroup)

\* ------------------------------------------------- torrent_data, a Python dict
\* torrent_data is a sequence of <<key, value>> items in insertion order.
InData(td, g) == \E i \in 1..Len(td) : td[i].key = g
IndexIn(td, g) == CHOOSE i \in 1..Len(td) : td[i].key = g
Get(td, g) == td[IndexIn(td, g)].value
\* torrent_data.pop(g, None)
Pop(td, g) == SelectSeq(td, LAMBDA it : it.key # g)
\* torrent_data[g] = v: an existing key keeps its place, a new one goes last
Put(td, g, v) ==
    IF InData(td, g)
    THEN [td EXCEPT ![IndexIn(td, g)] = [key |-> g, value |-> v]]
    ELSE Append(td, [key |-> g, value |-> v])
Keys(td) == {td[i].key : i \in 1..Len(td)}

\* --------------------------------------------------- the scan loop's entry body
\* downloader.py:56-60: the two filters
Excluded(d) == d.TorrentType # "Torrent" \/ d.GameDOXType # ""

\* (mutant) the comparison of line 70 inverted
KeepsExistingInverted(existing, new) == existing < new

\* downloader.py:70: the existing candidate is kept (continue)
KeepsExisting(existing, new) == existing > new

\* (mutant) a snatched entry empties the candidate map
PopSnatchedClears(td, d) == << >>

\* (mutant) a snatched entry leaves the candidate in place
PopSnatchedKeeps(td, d) == td

\* downloader.py:62-66: a snatched entry pops its group's candidate
PopSnatched(td, d) ==
    IF InData(td, d.GroupID) THEN Pop(td, d.GroupID) ELSE td

\* (mutant) the candidate's title is the one of the group's first torrent
CandidateMixed(tid, d) ==
    [torrent_id |-> tid, release_title |-> TitleOf(10 * d.GroupID + 1),
     seeders |-> d.Seeders]

\* downloader.py:73-77
Candidate(tid, d) ==
    [torrent_id |-> tid, release_title |-> d.ReleaseTitle, seeders |-> d.Seeders]

\* (mutant) the snatched check runs before the two filters
ProcessEntrySnatchedFirst(td, tid, d) ==
    IF d.IsSnatched THEN PopSnatched(td, d)
    ELSE IF Excluded(d) THEN td
    ELSE IF InData(td, d.GroupID)
            /\ KeepsExisting(Get(td, d.GroupID).seeders, d.Seeders) THEN td
    ELSE Put(td, d.GroupID, Candidate(tid, d))

\* downloader.py:54-77: torrent_data after the loop body has run on (tid, d)
ProcessEntry(td, tid, d) ==
    IF d.TorrentType # "Torrent" THEN td
    ELSE IF d.GameDOXType # "" THEN td
    ELSE IF d.IsSnatched THEN PopSnatched(td, d)
    ELSE IF InData(td, d.GroupID)
            /\ KeepsExisting(Get(td, d.GroupID).seeders, d.Seeders) THEN td
    ELSE Put(td, d.GroupID, Candidate(tid, d))

\* (mutant) a snatched entry is skipped and the loop goes on (continue)
BreaksNever(d) == FALSE

\* downloader.py:62-66: the loop over the group's entries is left (break)
Breaks(d) == ~Excluded(d) /\ d.IsSnatched

\* ------------------------------------------------------------ history
\* What processed keeps of the entry (tid, d) the loop body ran on: its key and
\* group, whether a filter excluded it, whether it is marked snatched, and, for
\* an entry that passed the filters and the snatched check, the fields a
\* candidate is made of; skipped is the part left of the group's list that a
\* break at this entry leaves unprocessed, and had tells whether the break
\* found a candidate of the group in the map td.
Seen(tid, d, left, td) ==
    LET fresh == ~Excluded(d) /\ ~d.IsSnatched
    IN [tid |-> tid, GroupID |-> d.GroupID, excluded |-> Excluded(d),
        IsSnatched |-> d.IsSnatched,
        Seeders |-> IF fresh THEN d.Seeders ELSE 0,
        ReleaseTitle |-> IF fresh THEN d.ReleaseTitle ELSE << >>,
        skipped |-> IF Breaks(d) THEN left ELSE << >>,
        had |-> Breaks(d) /\ InData(td, d.GroupID)]
\* No entry: the last step did not run the loop body.
NoEntry == [tid |-> 0, GroupID |-> 0, excluded |-> FALSE, IsSnatched |-> FALSE,
            Seeders |-> 0, ReleaseTitle |-> << >>, skipped |-> << >>, had |-> FALSE]

\* What the scan has processed for a group identifier, among its non-excluded
\* entries: the largest seeder count of one not snatched (-1: none yet), whether
\* one was snatched, the kind of the last one ("none", "snatched", "fresh"), and
\* the largest seeder count of those processed since the last snatched one.
NoHist == [maxSeeders |-> -1, anySnatched |-> FALSE, last |-> "none", sinceVoid |-> -1]
Max(a, b) == IF a > b THEN a ELSE b
Record(h, d) ==
    IF Excluded(d) THEN h
    ELSE [h EXCEPT ![d.GroupID] =
            [maxSeeders |-> IF d.IsSnatched THEN @.maxSeeders
                            ELSE Max(@.maxSeeders, d.Seeders),
             anySnatched |-> @.anySnatched \/ d.IsSnatched,
             last |-> IF d.IsSnatched THEN "snatched" ELSE "fresh",
             sinceVoid |-> IF d.IsSnatched THEN -1
                           ELSE Max(@.sinceVoid, d.Seeders)]]

\* ============================================================ lib/ggn_client.py
\* Text is a sequence of string pieces; concatenation is \o.
\* The values a caller passes as the dry flag: the booleans, None, and the
\* strings argparse stores for --dry (it declares no type).
DryValues == {"True", "False", "None", "''", "'False'"}
\* Python's truth value of a dry flag (used by "if dry:")
Truthy(v) == v \in {"True", "'False'"}
\* ggn_client.py:943: dry is None or dry is False
IsNoneOrFalse(v) == v \in {"None", "False"}

DefaultBaseUrl == <<"https://gazellegames.net/api.php">>
DownloadUrl == <<"https://gazellegames.net/torrents.php?">>

\* (mutant) a pair for every argument, None or not
ArgPairsKeepsNone(args) ==
    [i \in 1..Len(args) |-> <<args[i][1], "=", args[i][2]>>]

\* ggn_client.py:55: the key=value pairs of the args whose value is not None
RECURSIVE ArgPairs(_)
ArgPairs(args) ==
    IF args = << >> THEN << >>
    ELSE IF Head(args)[2] = None THEN ArgPairs(Tail(args))
    ELSE <<<<Head(args)[1], "=", Head(args)[2]>>>> \o ArgPairs(Tail(args))

\* '&'.join(pairs)
RECURSIVE JoinAmp(_)
JoinAmp(pairs) ==
    IF pairs = << >> THEN << >>
    ELSE IF Len(pairs) = 1 THEN Head(pairs)
    ELSE Head(pairs) \o <<"&">> \o JoinAmp(Tail(pairs))

\* ggn_client.py:45-46
BaseUrl(base_url) == base_url \o <<"?">>

\* An optional argument: a value, or Python's None.
Some(x) == [some |-> TRUE, v |-> x]
NoneArg == [some |-> FALSE, v |-> << >>]
\* Python's "not x" for an optional text: None or the empty string
Falsy(x) == ~x.some \/ x.v = << >>

\* ggn_client.py:48-57. action, override_url: an optional text; args: an
\* optional sequence of <<key, value>> in dict order, a value a string or None.
ActionUrl(base_url, action, args, override_url) ==
    LET base == IF Falsy(override_url) THEN BaseUrl(base_url) ELSE override_url.v
        extra_args == IF args.some /\ Len(args.v) > 0
                      THEN <<"&">> \o JoinAmp(ArgPairs(args.v)) ELSE << >>
    IN IF Falsy(action) THEN base
       ELSE base \o <<"&request=">> \o action.v \o <<"&">> \o extra_args

\* What the transport and the server answer to a GET: a timeout or transport
\* failure, or a response with its ok flag, its content type, the status and
\* response fields of a JSON body, and its raw content.
NoUser == [authkey |-> "", passkey |-> ""]
Users == [authkey : {"ak1", "ak2"}, passkey : {"pk1"}]
Responses ==
    {[net |-> "timeout", ok |-> FALSE, json |-> FALSE, status |-> "",
      response |-> NoUser, content |-> ""]}
    \cup [net : {"ok"}, ok : {FALSE}, json : BOOLEAN, status : {"success", "failure"},
          response : {NoUser}, content : {"error page"}]
    \cup [net : {"ok"}, ok : {TRUE}, json : {FALSE}, status : {""},
          response : {NoUser}, content : {"torrent bytes"}]
    \cup [net : {"ok"}, ok : {TRUE}, json : {TRUE}, status : {"success", "failure"},
          response : Users, content : {"json text"}]
NoResponse == [net |-> "none", ok |-> FALSE, json |-> FALSE, status |-> "",
               response |-> NoUser, content |-> ""]

\* The answers to draw for a request: all of them when the request may be
\* issued, and none to choose from when it cannot be.
AnswersFor(issued) == IF issued THEN Responses ELSE {NoResponse}

\* ggn_client.py:77: not response.ok
HttpFailed(resp) == ~resp.ok

\* (mutant) every content type is taken for JSON
IsJsonBodyAlways(resp) == TRUE

\* ggn_client.py:81: the Content-Type header is application/json
IsJsonBody(resp) == resp.json

\* (mutant) the status field is not looked at
ApiFailedNever(resp) == FALSE

\* ggn_client.py:84: json["status"] != "success"
ApiFailed(resp) == resp.status # "success"

\* (mutant) only the boolean True counts as a dry run
IsDryStrict(dry) == dry = "True"

\* ggn_client.py:68: if dry
IsDry(dry) == Truthy(dry)

\* ggn_client.py:61-89, the body of _do_request once the limiter has admitted
\* the call. resp is what the GET of line 71 would answer. The result names how
\* the call ends ("url": the endpoint is returned, "raw": the response object,
\* "json": the body's response field, or the exception raised), the value
\* returned, and the GETs issued.
DoRequest(base_url, action, args, override_url, dry, resp) ==
    LET endpoint == ActionUrl(base_url, action, args, override_url)
        out(end, r, gets) == [end |-> end, url |-> IF end = "url" THEN endpoint ELSE << >>,
                              resp |-> r, gets |-> gets]
    IN IF IsDry(dry) THEN out("url", NoResponse, << >>)
       ELSE IF resp.net # "ok" THEN out("RequestException", NoResponse, <<endpoint>>)
       ELSE IF HttpFailed(resp) THEN out("GGNClientException", NoResponse, <<endpoint>>)
       ELSE IF ~IsJsonBody(resp) THEN out("raw", resp, <<endpoint>>)
       ELSE IF ApiFailed(resp) THEN out("GGNClientException", NoResponse, <<endpoint>>)
       ELSE out("json", resp, <<endpoint>>)

\* (mutant) a request that raised is taken for one that returned
ReturnsAlways(o) == TRUE

\* ggn_client.py:70, 82, 89: _do_request returns to its caller
Returns(o) == o.end \in {"url", "raw", "json"}

\* The session-user cache _user: None, the record quick_user returned, or (after
\* a 2xx answer that is not JSON) the raw response object.
NoCache == [kind |-> "none", rec |-> NoUser]
CacheOf(q) ==
    IF q.end = "json" THEN [kind |-> "user", rec |-> q.resp.response]
    ELSE [kind |-> "raw", rec |-> NoUser]

\* (mutant) the user record is fetched by every call
NeedsUserAlways(user0) == TRUE

\* ggn_client.py:947: if self._user is None
NeedsUser(user0) == user0.kind = "none"

\* ggn_client.py:100-107
QuickUser(base_url, resp) ==
    DoRequest(base_url, Some(<<"quick_user">>), NoneArg, NoneArg, "False", resp)

\* (mutant) the download request without its url override
DownloadRequestNoOverride(base_url, u, tid, dry, resp) ==
    DoRequest(base_url, Some(<<"download">>),
              Some(<< <<"id", ToString(tid)>>,
                      <<"authkey", u.rec.authkey>>,
                      <<"torrent_pass", u.rec.passkey>> >>),
              NoneArg, dry, resp)

\* ggn_client.py:950-959: the download request
DownloadRequest(base_url, u, tid, dry, resp) ==
    DoRequest(base_url, Some(<<"download">>),
              Some(<< <<"id", ToString(tid)>>,
                      <<"authkey", u.rec.authkey>>,
                      <<"torrent_pass", u.rec.passkey>> >>),
              Some(DownloadUrl), dry, resp)

\* ggn_client.py:943: the precondition of download_torrent
MissingLocation(dry, write_location) ==
    IsNoneOrFalse(dry) /\ ~write_location.some

\* ggn_client.py:960: if dry
PrintsOnly(dry) == Truthy(dry)

\* What a call has done when it ends: how it ended ("return" or the exception
\* raised), the value returned ("None", or for _do_request "url", "raw",
\* "json" with the url or the response), the cache, the GETs issued in order,
\* the text printed, and what happened to the destination file; for
\* download_torrent also how its quick_user request and its download request
\* ended ("none" when the call did not make the request).
Effect(end, retkind, url, resp, u, gets, printed, file) ==
    [end |-> end, retkind |-> retkind, url |-> url, resp |-> resp, user |-> u,
     gets |-> gets, printed |-> printed, file |-> file,
     quick |-> "none", download |-> "none"]

\* ggn_client.py:935-967. r1 answers the quick_user request, r2 the download
\* request, when they are issued.
DownloadTorrent(base_url, user0, tid, write_location, dry, r1, r2) ==
    LET raise(exc, u, gets, file) ==
            Effect(exc, "raise", << >>, NoResponse, u, gets, << >>, file)
        q == QuickUser(base_url, r1)
        gets1 == IF NeedsUser(user0) THEN q.gets ELSE << >>
        u == IF NeedsUser(user0) THEN CacheOf(q) ELSE user0
        qe == IF NeedsUser(user0) THEN q.end ELSE "none"
    IN IF MissingLocation(dry, write_location)
       THEN raise("Exception", user0, << >>, "untouched")
       ELSE IF NeedsUser(user0) /\ ~Returns(q)
       THEN [raise(q.end, user0, gets1, "untouched") EXCEPT !.quick = qe]
       ELSE IF u.kind = "raw"
       \* self._user["authkey"] on a Response object
       THEN [raise("TypeError", u, gets1, "untouched") EXCEPT !.quick = qe]
       ELSE LET d == DownloadRequest(base_url, u, tid, dry, r2)
                gets == gets1 \o d.gets
                e == IF ~Returns(d) THEN raise(d.end, u, gets, "untouched")
                     ELSE IF PrintsOnly(dry)
                     THEN Effect("return", "None", << >>, NoResponse, u, gets, d.url,
                                 "untouched")
                     \* open(None, "wb")
                     ELSE IF ~write_location.some
                     THEN raise("TypeError", u, gets, "untouched")
                     \* the response field of a JSON body has no content
                     ELSE IF d.end = "json"
                     THEN raise("AttributeError", u, gets, "opened")
                     ELSE Effect("return", "None", << >>, NoResponse, u, gets, << >>,
                                 "written")
            IN [e EXCEPT !.quick = qe, !.download = d.end]

\* The identifiers a caller passes to user_profile: an optional integer and an
\* optional string.
NoId == [some |-> FALSE, v |-> 0]
SomeId(n) == [some |-> TRUE, v |-> n]
NoName == [some |-> FALSE, v |-> ""]
SomeName(n) == [some |-> TRUE, v |-> n]
\* Python's "not user_id", "not name": None, the integer 0 and the empty string
FalsyId(x) == ~x.some \/ x.v = 0
FalsyName(x) == ~x.some \/ x.v = ""

\* ggn_client.py:135-138: the args of the user request
ProfileArgs(user_id, name) ==
    Some(<< <<"id", IF ~FalsyId(user_id) THEN ToString(user_id.v) ELSE None>>,
            <<"username", IF ~FalsyName(name) THEN name.v ELSE None>> >>)

\* ggn_client.py:118-139. The result tells how the call ends, how many times it
\* has called _do_request (each call takes a slot of the limiter), and the
\* outcome of that call.
UserProfile(base_url, user_id, name, resp) ==
    IF FalsyId(user_id) /\ FalsyName(name)
    THEN [invoked |-> 0,
          out |-> [end |-> "GGNClientException", url |-> << >>, resp |-> NoResponse,
                   gets |-> << >>]]
    ELSE IF ~FalsyId(user_id) /\ ~FalsyName(name)
    THEN [invoked |-> 0,
          out |-> [end |-> "GGNClientException", url |-> << >>, resp |-> NoResponse,
                   gets |-> << >>]]
    ELSE [invoked |-> 1,
          out |-> DoRequest(base_url, Some(<<"user">>), ProfileArgs(user_id, name),
                            NoneArg, "False", resp)]

\* ------------------------------------------------------------ the rate limiter
\* ggn_client.py:59-60: _do_request is wrapped in limits(calls=5, period=10 s)
\* and that in sleep_and_retry, both of the ratelimit package. limits keeps, for
\* the decorated function, the time of its last reset (taken when the class body
\* is executed) and a counter: a call made when the period has run out resets
\* both; the call is counted, and past the 5th count of a period it raises
\* RateLimitException carrying the time the period has left. sleep_and_retry
\* catches that exception, sleeps for that time and calls again.
Calls == 5
Period == 10

NoRateCall == [client |-> "none", dry |-> "None", issued |-> FALSE, blocked |-> FALSE,
               ran |-> 0, gets |-> 0, result |-> "none"]

RateInit ==
    /\ since_reset = 0
    /\ num_calls = 0
    /\ rpc = "idle"
    /\ sleep_left = 0
    /\ rcall = NoRateCall
    /\ starts = << >>
    /\ callers = {}
    /\ dry_only = TRUE

\* limits: the time the current period has left
PeriodRemaining == Period - since_reset

\* The starts of the body still younger than a period, with a new one in front.
Started(ages) == SubSeq(<<0>> \o ages, 1, IF Len(ages) > Calls THEN Calls + 1 ELSE Len(ages) + 1)

\* The client instances: the downloader's, and a second one built on another
\* base url.
Clients == {"c1", "c2"}
BaseUrlOf(c) == IF c = "c1" THEN DefaultBaseUrl ELSE <<"https://mirror.example/api.php">>

\* A call as last records it: the operation, its inputs, the cache it found, and
\* its effect.
Call(op, tid, action, args, override_url, write_location, dry, before, eff) ==
    [op |-> op, torrent_id |-> tid, action |-> action, args |-> args,
     override_url |-> override_url, write_location |-> write_location,
     dry |-> dry, before |-> before, eff |-> eff]
NoCall ==
    Call("none", 0, NoneArg, NoneArg, NoneArg, NoneArg, "None", NoCache,
         Effect("none", "None", << >>, NoResponse, NoCache, << >>, << >>, "untouched"))

\* A direct call of _do_request or user_profile as req records it: the
\* identifiers given to user_profile, the calls of _do_request made, and what
\* the transport answered to the GET.
NoReq == [user_id |-> NoId, name |-> NoName, invoked |-> 0, answer |-> NoResponse]

ClientInit ==
    /\ user = [c \in Clients |-> NoCache]
    /\ last = [c \in Clients |-> NoCall]
    /\ req = NoReq

\* A caller invokes download_torrent on client c.
CallDownloadTorrent(c, tid, write_location, dry, r1, r2) ==
    LET e == DownloadTorrent(BaseUrlOf(c), user[c], tid, write_location, dry, r1, r2)
    IN /\ user' = [user EXCEPT ![c] = e.user]
       /\ last' = [last EXCEPT ![c] =
              Call("download_torrent", tid, NoneArg, NoneArg, NoneArg,
                   write_location, dry, user[c], e)]
       /\ UNCHANGED req

\* A caller invokes _do_request on client c.
CallDoRequest(c, action, args, override_url, dry, resp) ==
    LET o == DoRequest(BaseUrlOf(c), action, args, override_url, dry, resp)
        e == Effect(IF Returns(o) THEN "return" ELSE o.end,
                    IF Returns(o) THEN o.end ELSE "raise",
                    o.url, o.resp, user[c], o.gets, << >>, "untouched")
    IN /\ last' = [last EXCEPT ![c] =
              Call("_do_request", 0, action, args, override_url, NoneArg, dry,
                   user[c], e)]
       /\ req' = [NoReq EXCEPT !.invoked = 1, !.answer = resp]
       /\ UNCHANGED user

\* A caller invokes user_profile on client c.
CallUserProfile(c, user_id, name, resp) ==
    LET p == UserProfile(BaseUrlOf(c), user_id, name, resp)
        o == p.out
        e == Effect(IF Returns(o) THEN "return" ELSE o.end,
                    IF Returns(o) THEN o.end ELSE "raise",
                    o.url, o.resp, user[c], o.gets, << >>, "untouched")
    IN /\ last' = [last EXCEPT ![c] =
              Call("user_profile", 0, NoneArg, NoneArg, NoneArg, NoneArg, "False",
                   user[c], e)]
       /\ req' = [user_id |-> user_id, name |-> name, invoked |-> p.invoked,
                  answer |-> resp]
       /\ UNCHANGED user

\* ================================================================ downloader.py
\* The configurations of console_list: the shipped one, and one with a
\* second console added where the source invites it (downloader.py:27-28).
ConsoleNames == <<"Atari 2600", "Atari 5200", "Atari 7800", "Atari Jaguar">>
ConsoleLists == {SubSeq(ConsoleNames, 1, n) : n \in 1..MaxConsoles}

\* downloader.py:13-15: --dry has the default True and no type, so a value given
\* on the command line is stored as a string, empty or not.
ArgDryValues == {"True", "'False'", "''"}
\* downloader.py:16: the default of --write_location
WriteLocation == <<".", "/">>

\* (mutant) every character of the table becomes an underscore
FileTranslatorUnderscore(ch) ==
    IF ch \in {"[", "\\", "/", "\"", "*", "?", "<", ">", "|", "]", ":"} THEN "_"
    ELSE ch

\* downloader.py:83-84
FileTranslator(ch) ==
    IF ch = "/" THEN "-"
    ELSE IF ch \in {"[", "\\", "\"", "*", "?", "<", ">", "|", "]", ":"} THEN "_"
    ELSE ch
\* downloader.py:88: release_title.translate(file_translator)
Translate(title) == [i \in 1..Len(title) |-> FileTranslator(title[i])]

ScanInit ==
    /\ pc = "fetch"
    /\ console_list \in ConsoleLists
    /\ ci = 1
    /\ page_number = 1
    /\ groupKeys = << >>
    /\ torrentKeys = << >>
    /\ torrent_data = << >>
    /\ requested = [c \in 1..MaxConsoles |-> << >>]
    /\ hist = [g \in Groups |-> NoHist]
    /\ processed = NoEntry
    /\ args_dry \in ArgDryValues
    /\ dl = 1
    /\ attempts = << >>

\* The non-empty pages served so far.
Served ==
    Cardinality({<<c, i>> \in (1..MaxConsoles) \X (1..(MaxPages + 1)) :
                    i <= Len(requested[c]) /\ requested[c][i].outcome = "page"})

\* downloader.py:45 and 32: break, then the next console or the download loop
AfterEmptyPage ==
    IF ci < Len(console_list)
    THEN /\ ci' = ci + 1
         /\ page_number' = 1
         /\ pc' = "fetch"
    ELSE /\ pc' = "download"
         /\ UNCHANGED <<ci, page_number>>

\* downloader.py:36-45: search_torrents returns a page
SearchPage ==
    /\ UNCHANGED <<loopVars, clientVars, callerVars, rateVars>>
    /\ pc = "fetch"
    /\ \E keys \in PageKeys :
         /\ Served >= MaxPages => keys = << >>
         /\ requested' = [requested EXCEPT ![ci] =
                Append(@, [page |-> page_number,
                           outcome |-> IF keys = << >> THEN "empty" ELSE "page"])]
         /\ IF Len(keys) = 0
            THEN /\ AfterEmptyPage
                 /\ UNCHANGED groupKeys
            ELSE /\ groupKeys' = keys
                 /\ pc' = "groups"
                 /\ UNCHANGED <<ci, page_number>>
    /\ UNCHANGED <<console_list, torrentKeys, torrent_data, hist>>
    /\ processed' = NoEntry

\* (mutant) the error is caught and the page is requested again
SearchFailsRetried ==
    /\ UNCHANGED <<loopVars, clientVars, callerVars, rateVars>>
    /\ pc = "fetch"
    /\ Len(requested[ci]) <= MaxPages
    /\ requested' = [requested EXCEPT ![ci] =
            Append(@, [page |-> page_number, outcome |-> "error"])]
    /\ UNCHANGED <<pc, console_list, ci, page_number, groupKeys, torrentKeys,
                   torrent_data, hist>>
    /\ processed' = NoEntry

\* (mutant) a failed search ends the scan and the plan so far is downloaded
SearchFailsThenDownloads ==
    /\ UNCHANGED <<loopVars, clientVars, callerVars, rateVars>>
    /\ pc = "fetch"
    /\ requested' = [requested EXCEPT ![ci] =
            Append(@, [page |-> page_number, outcome |-> "error"])]
    /\ pc' = "download"
    /\ UNCHANGED <<console_list, ci, page_number, groupKeys, torrentKeys,
                   torrent_data, hist>>
    /\ processed' = NoEntry

\* downloader.py:36-42: search_torrents raises; nothing in the script catches it
SearchFails ==
    /\ UNCHANGED <<loopVars, clientVars, callerVars, rateVars>>
    /\ pc = "fetch"
    /\ requested' = [requested EXCEPT ![ci] =
            Append(@, [page |-> page_number, outcome |-> "error"])]
    /\ pc' = "aborted"
    /\ UNCHANGED <<console_list, ci, page_number, groupKeys, torrentKeys,
                   torrent_data, hist>>
    /\ processed' = NoEntry

\* downloader.py:46-52: a group without "Torrents", or with none, is skipped
SkipGroup ==
    /\ UNCHANGED <<loopVars, clientVars, callerVars, rateVars>>
    /\ pc = "groups"
    /\ groupKeys # << >>
    /\ groupKeys' = Tail(groupKeys)
    /\ UNCHANGED <<pc, console_list, ci, page_number, torrentKeys,
                   torrent_data, requested, hist>>
    /\ processed' = NoEntry

\* downloader.py:46-54: the loop enters a group's "Torrents"
EnterGroup ==
    /\ UNCHANGED <<loopVars, clientVars, callerVars, rateVars>>
    /\ pc = "groups"
    /\ groupKeys # << >>
    /\ \E keys \in TorrentKeysOf(Head(groupKeys)) :
         /\ keys # << >>
         /\ torrentKeys' = keys
    /\ groupKeys' = Tail(groupKeys)
    /\ pc' = "torrents"
    /\ UNCHANGED <<console_list, ci, page_number,
                   torrent_data, requested, hist>>
    /\ processed' = NoEntry

\* downloader.py:54-77: one pass of the loop body over a group's entry
ScanEntry ==
    /\ UNCHANGED <<loopVars, clientVars, callerVars, rateVars>>
    /\ pc = "torrents"
    /\ torrentKeys # << >>
    /\ LET tid == Head(torrentKeys) IN
       \E d \in EntriesOf(tid \div 10, tid) :
         /\ torrent_data' = ProcessEntry(torrent_data, tid, d)
         /\ hist' = Record(hist, d)
         /\ processed' = Seen(tid, d, Tail(torrentKeys), torrent_data)
         /\ torrentKeys' = IF Breaks(d) THEN << >> ELSE Tail(torrentKeys)
         /\ pc' = IF Breaks(d) \/ Tail(torrentKeys) = << >>
                  THEN "groups" ELSE "torrents"
    /\ UNCHANGED <<console_list, ci, page_number, groupKeys, requested>>

\* (mutant) the page counter advances by two
NextPageSkips ==
    /\ UNCHANGED <<loopVars, clientVars, callerVars, rateVars>>
    /\ pc = "groups"
    /\ groupKeys = << >>
    /\ page_number' = page_number + 2
    /\ pc' = "fetch"
    /\ UNCHANGED <<console_list, ci, groupKeys, torrentKeys,
                   torrent_data, requested, hist>>
    /\ processed' = NoEntry

\* downloader.py:79-80: the page is done, the next one is requested
NextPage ==
    /\ UNCHANGED <<loopVars, clientVars, callerVars, rateVars>>
    /\ pc = "groups"
    /\ groupKeys = << >>
    /\ page_number' = page_number + 1
    /\ pc' = "fetch"
    /\ UNCHANGED <<console_list, ci, groupKeys, torrentKeys,
                   torrent_data, requested, hist>>
    /\ processed' = NoEntry

\* downloader.py:86-92: one pass of the download loop. The loop catches
\* GGNClientException and nothing else.
Caught(end) == end = "GGNClientException"

Download ==
    /\ pc = "download"
    /\ dl <= Len(torrent_data)
    /\ LET item == torrent_data[dl]
           filename == Translate(item.value.release_title)
           write_location == Some(WriteLocation \o filename \o <<".torrent">>)
       IN \E r1 \in AnswersFor(user["c1"].kind = "none"),
             r2 \in AnswersFor(~Truthy(args_dry)) :
            /\ CallDownloadTorrent("c1", item.value.torrent_id, write_location,
                                   args_dry, r1, r2)
            /\ attempts' = Append(attempts, item.key)
            /\ IF last'["c1"].eff.end = "return" \/ Caught(last'["c1"].eff.end)
               THEN dl' = dl + 1 /\ pc' = pc
               ELSE dl' = dl /\ pc' = "aborted"
    /\ UNCHANGED <<console_list, ci, page_number, groupKeys, torrentKeys,
                   torrent_data, requested, hist, args_dry, callerVars,
                   rateVars>>
    /\ UNCHANGED processed

\* (mutant) the process completes without going through the plan
FinishEarly ==
    /\ pc = "download"
    /\ pc' = "done"
    /\ UNCHANGED <<console_list, ci, page_number, groupKeys, torrentKeys,
                   torrent_data, requested, hist, loopVars, clientVars,
                   callerVars, rateVars>>
    /\ UNCHANGED processed

\* downloader.py:94
Finish ==
    /\ pc = "download"
    /\ dl > Len(torrent_data)
    /\ pc' = "done"
    /\ UNCHANGED <<console_list, ci, page_number, groupKeys, torrentKeys,
                   torrent_data, requested, hist, loopVars, clientVars,
                   callerVars, rateVars>>
    /\ UNCHANGED processed

Init == ScanInit /\ ClientInit /\ ncalls = 0 /\ RateInit
Next ==
    \/ SearchPage \/ SearchFails
    \/ SkipGroup \/ EnterGroup \/ ScanEntry \/ NextPage
    \/ Download \/ Finish
Spec == Init /\ [][Next]_vars
\* The script is one sequential process: while a step is possible, one is taken.
FairSpec == Spec /\ WF_vars(Next)

\* ===================================================== callers of the client
\* The downloader's own state while other callers use the client.
NoScan ==
    /\ pc = "idle"
    /\ console_list = << >>
    /\ ci = 1
    /\ page_number = 1
    /\ groupKeys = << >>
    /\ torrentKeys = << >>
    /\ torrent_data = << >>
    /\ requested = [c \in 1..MaxConsoles |-> << >>]
    /\ hist = [g \in Groups |-> NoHist]
    /\ processed = NoEntry
    /\ args_dry = "True"
    /\ dl = 1
    /\ attempts = << >>

\* The inputs callers pass to download_torrent
CallTorrentIds == {11, 12}
CallLocations == {NoneArg, Some(<<".", "/", "a", ".torrent">>)}

\* ggn_client.py:935: any caller, any client instance, any arguments
DownloadTorrentCall ==
    /\ ncalls < MaxCalls
    /\ ncalls' = ncalls + 1
    /\ \E c \in Clients, tid \in CallTorrentIds, write_location \in CallLocations,
          dry \in DryValues :
         \E r1 \in AnswersFor(user[c].kind = "none"), r2 \in AnswersFor(~Truthy(dry)) :
            CallDownloadTorrent(c, tid, write_location, dry, r1, r2)
    /\ UNCHANGED <<scanVars, loopVars, rateVars>>

ClientSpecInit == NoScan /\ ClientInit /\ ncalls = 0 /\ RateInit
ClientSpecNext == DownloadTorrentCall
ClientSpec == ClientSpecInit /\ [][ClientSpecNext]_vars

\* The inputs callers pass to _do_request
CallActions == {NoneArg, Some(<< >>), Some(<<"user">>), Some(<<"download">>)}
CallArgs ==
    {NoneArg, Some(<< >>),
     Some(<< <<"id", "7">> >>),
     Some(<< <<"id", None>>, <<"username", "bob">> >>),
     Some(<< <<"id", "7">>, <<"username", None>> >>),
     Some(<< <<"id", None>>, <<"username", None>> >>)}
CallOverrides == {NoneArg, Some(<< >>), Some(DownloadUrl)}

\* ggn_client.py:61: any arguments, on the downloader's client
DoRequestCall ==
    /\ ncalls < MaxRequests
    /\ ncalls' = ncalls + 1
    /\ \E action \in CallActions, args \in CallArgs, override_url \in CallOverrides,
          dry \in DryValues :
         \E resp \in AnswersFor(~Truthy(dry)) :
            CallDoRequest("c1", action, args, override_url, dry, resp)
    /\ UNCHANGED <<scanVars, loopVars, rateVars>>

\* The identifiers callers pass to user_profile
CallUserIds == {NoId, SomeId(0), SomeId(7)}
CallNames == {NoName, SomeName(""), SomeName("bob")}

\* ggn_client.py:118: any identifiers, on the downloader's client
UserProfileCall ==
    /\ ncalls < MaxRequests
    /\ ncalls' = ncalls + 1
    /\ \E user_id \in CallUserIds, name \in CallNames :
         \E resp \in AnswersFor(UserProfile(DefaultBaseUrl, user_id, name,
                                            NoResponse).invoked = 1) :
            CallUserProfile("c1", user_id, name, resp)
    /\ UNCHANGED <<scanVars, loopVars, rateVars>>

\* The caches the client may hold when the calls are made: none, a user
\* record, or the raw response of a quick_user answer that was not JSON.
CallCaches ==
    {NoCache, [kind |-> "user", rec |-> [authkey |-> "ak1", passkey |-> "pk1"]],
     [kind |-> "raw", rec |-> NoUser]}

RequestSpecInit ==
    /\ NoScan /\ ncalls = 0 /\ RateInit
    /\ user \in [Clients -> CallCaches]
    /\ user["c2"] = NoCache
    /\ last = [c \in Clients |-> NoCall]
    /\ req = NoReq
RequestSpecNext == DoRequestCall \/ UserProfileCall
RequestSpec == RequestSpecInit /\ [][RequestSpecNext]_vars

\* ============================================== callers through the rate limiter
\* Outcomes of the body of _do_request (DoRequest's ends)
BodyEnds == {"url", "raw", "json", "GGNClientException", "RequestException"}

\* (mutant) a dry run does not go through the limiter: its body is run at once
ArriveDryUnlimited ==
    /\ rpc = "idle"
    /\ \E dry \in {"True", "False"} :
         /\ rcall' = [NoRateCall EXCEPT !.client = "c1", !.dry = dry, !.issued = TRUE,
                                        !.ran = IF Truthy(dry) THEN 1 ELSE 0]
         /\ rpc' = IF Truthy(dry) THEN "body" ELSE "limits"
         /\ starts' = IF Truthy(dry) THEN Started(starts) ELSE starts
    /\ UNCHANGED <<since_reset, num_calls, sleep_left, callers, dry_only>>
    /\ UNCHANGED <<scanVars, loopVars, clientVars, callerVars>>

\* The downloader calls _do_request (through any API operation) on its one
\* instance.
Arrive ==
    /\ rpc = "idle"
    /\ \E dry \in {"True", "False"} :
         rcall' = [NoRateCall EXCEPT !.client = "c1", !.dry = dry, !.issued = TRUE]
    /\ rpc' = "limits"
    /\ UNCHANGED <<since_reset, num_calls, sleep_left, starts, callers, dry_only>>
    /\ UNCHANGED <<scanVars, loopVars, clientVars, callerVars>>

\* A process that has built two instances calls _do_request on one of them.
ArriveAny ==
    /\ rpc = "idle"
    /\ \E c \in Clients, dry \in {"True", "False"} :
         rcall' = [NoRateCall EXCEPT !.client = c, !.dry = dry, !.issued = TRUE]
    /\ rpc' = "limits"
    /\ UNCHANGED <<since_reset, num_calls, sleep_left, starts, callers, dry_only>>
    /\ UNCHANGED <<scanVars, loopVars, clientVars, callerVars>>

\* (mutant) every instance has a budget of its own: the calls of the other
\* instances are not counted against it
CountedOwn(c) == IF callers \subseteq {c} THEN num_calls ELSE 0

\* ggn_client.py:59-61: the decorators are applied once, to the function in the
\* class body, so the one counter counts the calls made through every instance
Counted(c) == num_calls

\* ggn_client.py:60, limits: reset when the period is over, count the call,
\* raise past the limit or run the body; and ggn_client.py:59, sleep_and_retry:
\* the exception starts a sleep of the time the period has left.
Admit ==
    /\ rpc = "limits"
    /\ LET reset == PeriodRemaining <= 0
           n == (IF reset THEN 0 ELSE Counted(rcall.client)) + 1
       IN /\ num_calls' = n
          /\ since_reset' = IF reset THEN 0 ELSE since_reset
          /\ IF n > Calls
             THEN /\ rpc' = "sleep"
                  /\ sleep_left' = PeriodRemaining
                  /\ rcall' = [rcall EXCEPT !.blocked = TRUE]
                  /\ UNCHANGED <<starts, callers, dry_only>>
             ELSE /\ rpc' = "body"
                  /\ rcall' = [rcall EXCEPT !.ran = @ + 1]
                  /\ starts' = Started(starts)
                  /\ callers' = (IF reset THEN {} ELSE callers) \cup {rcall.client}
                  /\ dry_only' = ((reset \/ dry_only) /\ Truthy(rcall.dry))
                  /\ UNCHANGED sleep_left
    /\ UNCHANGED <<scanVars, loopVars, clientVars, callerVars>>

\* (mutant) the sleeping call is given up instead of being made again
WakeGivesUp ==
    /\ rpc = "sleep"
    /\ sleep_left = 0
    /\ rpc' = "idle"
    /\ rcall' = [rcall EXCEPT !.result = "RateLimitException"]
    /\ UNCHANGED <<since_reset, num_calls, sleep_left, starts, callers, dry_only>>
    /\ UNCHANGED <<scanVars, loopVars, clientVars, callerVars>>

\* ggn_client.py:59, sleep_and_retry: the sleep is over, the call is made again
Wake ==
    /\ rpc = "sleep"
    /\ sleep_left = 0
    /\ rpc' = "limits"
    /\ UNCHANGED <<since_reset, num_calls, sleep_left, rcall, starts, callers, dry_only>>
    /\ UNCHANGED <<scanVars, loopVars, clientVars, callerVars>>

\* (mutant) a call whose GET has failed is made again
BodyDoneRetries ==
    /\ rpc = "body"
    /\ \E resp \in AnswersFor(~Truthy(rcall.dry)) :
         LET o == DoRequest(BaseUrlOf(rcall.client), Some(<<"quick_user">>), NoneArg,
                            NoneArg, rcall.dry, resp)
         IN /\ rcall' = [rcall EXCEPT !.result = o.end, !.gets = @ + Len(o.gets)]
            /\ rpc' = IF Returns(o) THEN "idle" ELSE "limits"
    /\ UNCHANGED <<since_reset, num_calls, sleep_left, starts, callers, dry_only>>
    /\ UNCHANGED <<scanVars, loopVars, clientVars, callerVars>>

\* ggn_client.py:61-89: the body ends and its result or error reaches the caller
BodyDone ==
    /\ rpc = "body"
    /\ \E resp \in AnswersFor(~Truthy(rcall.dry)) :
         LET o == DoRequest(BaseUrlOf(rcall.client), Some(<<"quick_user">>), NoneArg,
                            NoneArg, rcall.dry, resp)
         IN rcall' = [rcall EXCEPT !.result = o.end, !.gets = @ + Len(o.gets)]
    /\ rpc' = "idle"
    /\ UNCHANGED <<since_reset, num_calls, sleep_left, starts, callers, dry_only>>
    /\ UNCHANGED <<scanVars, loopVars, clientVars, callerVars>>

\* A second goes by.
Older(ages) == SelectSeq([i \in 1..Len(ages) |-> ages[i] + 1], LAMBDA a : a < Period)
Tick ==
    /\ since_reset' = IF since_reset < Period THEN since_reset + 1 ELSE since_reset
    /\ sleep_left' = IF sleep_left > 0 THEN sleep_left - 1 ELSE 0
    /\ starts' = Older(starts)
    /\ UNCHANGED <<num_calls, rpc, rcall, callers, dry_only>>
    /\ UNCHANGED <<scanVars, loopVars, clientVars, callerVars>>

RateSpecInit == NoScan /\ ClientInit /\ ncalls = 0 /\ RateInit
RateSpecNext == Arrive \/ Admit \/ Wake \/ BodyDone \/ Tick
RateSpec == RateSpecInit /\ [][RateSpecNext]_vars
\* Time goes on, a sleep ends, and a caller that can take its next step takes it.
FairRateSpec ==
    /\ RateSpec
    /\ WF_vars(Tick) /\ WF_vars(Wake) /\ WF_vars(Admit) /\ WF_vars(BodyDone)

\* Two instances in one process, calling through the one decorated method
InstancesSpecNext == ArriveAny \/ Admit \/ Wake \/ BodyDone \/ Tick
InstancesSpec == RateSpecInit /\ [][InstancesSpecNext]_vars

\* ====================================================================== claims
\* The scan of the last console has met its empty page: torrent_data is the
\* final plan.
ScanComplete ==
    /\ ci = Len(console_list)
    /\ requested[ci] # << >>
    /\ requested[ci][Len(requested[ci])].outcome = "empty"

\* C1: for every console the search requests carry the page numbers 1, 2, ..., k
\* in that order, k being the first page with zero groups; no request follows
\* the empty page, and the consoles are scanned in the order of console_list.
C1_PagesInOrder ==
    /\ \A c \in 1..MaxConsoles :
         /\ \A i \in 1..Len(requested[c]) :
              /\ requested[c][i].page = i
              /\ requested[c][i].outcome # "page" => i = Len(requested[c])
         /\ c < ci => /\ requested[c] # << >>
                      /\ requested[c][Len(requested[c])].outcome = "empty"
         /\ c > ci => requested[c] = << >>
    /\ pc = "fetch" => page_number = Len(requested[ci]) + 1
    /\ pc \in {"download", "done"} => ScanComplete

\* C1 witness: the first console was scanned through pages 1, 2 and the empty
\* page 3, and the second console restarted at page 1.
C1_Witness ==
    /\ Len(requested[1]) = 3
    /\ requested[1][3].outcome = "empty"
    /\ Len(requested[2]) = 1
    /\ pc = "done"

\* C2: in the final plan a group for which no snatched entry was processed holds
\* the largest seeder count of its processed non-excluded entries (and is absent
\* when there was none), and no group identifier has two candidates.
C2_MaxSeeders ==
    ScanComplete =>
        /\ Cardinality(Keys(torrent_data)) = Len(torrent_data)
        /\ \A g \in Groups :
             ~hist[g].anySnatched =>
                IF hist[g].maxSeeders >= 0
                THEN /\ InData(torrent_data, g)
                     /\ Get(torrent_data, g).seeders = hist[g].maxSeeders
                ELSE ~InData(torrent_data, g)

\* C2 witness: two pages were served, no snatched entry was met, and the plan
\* holds both groups, one of them with the largest seeder count.
C2_Witness ==
    /\ ScanComplete
    /\ Served = MaxPages
    /\ Len(torrent_data) = NumGroups
    /\ \A g \in Groups : ~hist[g].anySnatched
    /\ \E g \in Groups : Get(torrent_data, g).seeders = MaxSeeders
    /\ \E g \in Groups : Get(torrent_data, g).seeders < MaxSeeders

\* C3 (the claim as stated): no step replaces a group's candidate by another
\* candidate with the same seeder count: on a tie the recorded one is kept.
C3_TieKeepsFirst ==
    [][\A g \in Groups :
         (/\ InData(torrent_data, g)
          /\ InData(torrent_data', g)
          /\ Get(torrent_data', g).seeders = Get(torrent_data, g).seeders)
         => Get(torrent_data', g) = Get(torrent_data, g)]_vars

\* C4: in the final plan a group whose last processed non-excluded entry was
\* snatched has no candidate, and no download is attempted for it.
C4_SnatchedVoids ==
    ScanComplete =>
        \A g \in Groups :
            hist[g].last = "snatched" =>
                /\ ~InData(torrent_data, g)
                /\ g \notin Range(attempts)

\* C4 witness: a group had a candidate recorded and then met a snatched entry;
\* the run completed and downloaded for the other group.
C4_Witness ==
    /\ pc = "done"
    /\ attempts # << >>
    /\ \E g \in Groups :
         /\ hist[g].last = "snatched"
         /\ hist[g].maxSeeders = MaxSeeders

\* C7 (the claim as stated): once the download loop has ended, it has ended
\* normally, with exactly one attempt for every group of the plan.
C7_AllAttempted ==
    (ScanComplete /\ pc # "download") =>
        /\ pc = "done"
        /\ attempts = [i \in 1..Len(torrent_data) |-> torrent_data[i].key]

\* C5 (the claim as stated): at most Calls executions of the body of _do_request
\* start within any Period seconds.
C5_RollingWindow == Len(starts) <= Calls

\* C6: a call is run at most once; a call that has ended has run exactly once;
\* and a call that sleeps because the budget is used up gets to run the body.
C6_BlockedCallRuns ==
    /\ [](rcall.ran <= 1)
    /\ []((rpc = "idle" /\ rcall.issued) => (rcall.ran = 1 /\ rcall.result \in BodyEnds))
    /\ ((rpc = "sleep") ~> (rpc = "body"))

\* C6 witness: a call that had to sleep has run and returned to its caller.
C6_Witness ==
    /\ rpc = "idle"
    /\ rcall.blocked
    /\ rcall.ran = 1
    /\ rcall.result \in BodyEnds

\* A dry-run call of download_torrent is the last call of client c.
DryDownload(c) == last[c].op = "download_torrent" /\ Truthy(last[c].dry)

\* The url of the user-info request of client c
QuickUserUrl(c) == BaseUrlOf(c) \o <<"?", "&request=", "quick_user", "&">>

\* C8 (the claim as stated): a dry-run call of download_torrent issues no HTTP
\* request at all and touches no file.
C8_DryNoHttp ==
    \A c \in Clients :
        DryDownload(c) =>
            /\ last[c].eff.gets = << >>
            /\ last[c].eff.file = "untouched"

\* C8 (amended): a dry-run call of download_torrent touches no file and issues
\* no download request; its only HTTP request is the user-info GET, issued once
\* when it finds the session-user cache empty and not at all otherwise.
C8_DryOnlyUserInfo ==
    \A c \in Clients :
        DryDownload(c) =>
            /\ last[c].eff.file = "untouched"
            /\ last[c].eff.gets =
                  IF last[c].before.kind = "none" THEN <<QuickUserUrl(c)>> ELSE << >>

\* C8 witness: a dry-run call found the cache empty, fetched the user and
\* printed the link.
C8_Witness ==
    \E c \in Clients :
        /\ DryDownload(c)
        /\ last[c].before.kind = "none"
        /\ last[c].eff.end = "return"
        /\ last[c].eff.printed # << >>

\* The download link of a torrent for a user record
DownloadLink(tid, rec) ==
    <<"https://gazellegames.net/torrents.php?", "&request=", "download", "&", "&",
      "id", "=", ToString(tid), "&", "authkey", "=", rec.authkey, "&",
      "torrent_pass", "=", rec.passkey>>

\* A dry-run call of download_torrent on client c has returned.
DryReturned(c) == DryDownload(c) /\ last[c].eff.end = "return"

\* C9 (the claim as stated): a dry-run call of download_torrent returns the
\* download url to its caller.
C9_ReturnsUrl ==
    \A c \in Clients :
        DryReturned(c) =>
            /\ last[c].eff.retkind = "url"
            /\ last[c].eff.url = DownloadLink(last[c].torrent_id, last[c].eff.user.rec)

\* C9 (amended): a dry-run call of download_torrent prints the download url and
\* returns None; the url is the link made of the torrent id, the auth key and
\* the pass key, so two dry-run calls with the same torrent id on clients
\* holding the same keys print the same url.
C9_PrintsSameUrl ==
    /\ \A c \in Clients :
         DryReturned(c) =>
            /\ last[c].eff.retkind = "None"
            /\ last[c].eff.printed =
                  DownloadLink(last[c].torrent_id, last[c].eff.user.rec)
    /\ \A c, d \in Clients :
         (/\ DryReturned(c) /\ DryReturned(d)
          /\ last[c].torrent_id = last[d].torrent_id
          /\ user[c].rec = user[d].rec)
         => last[c].eff.printed = last[d].eff.printed

\* C9 witness: both clients, built on different base urls, hold the same keys
\* and have printed the link of the same torrent.
C9_Witness ==
    /\ DryReturned("c1") /\ DryReturned("c2")
    /\ last["c1"].torrent_id = last["c2"].torrent_id
    /\ user["c1"].kind = "user"
    /\ user["c1"] = user["c2"]
    /\ last["c1"].eff.printed # << >>

\* C10: a call of _do_request with a true dry flag returns the endpoint url,
\* the value of _action_url for its inputs, and issues no GET.
C10_DryReturnsUrl ==
    \A c \in Clients :
        (last[c].op = "_do_request" /\ Truthy(last[c].dry)) =>
            /\ last[c].eff.end = "return"
            /\ last[c].eff.retkind = "url"
            /\ last[c].eff.gets = << >>
            /\ last[c].eff.url = ActionUrl(BaseUrlOf(c), last[c].action, last[c].args,
                                           last[c].override_url)
            /\ (/\ last[c].action = Some(<<"user">>)
                /\ last[c].args = Some(<< <<"id", None>>, <<"username", "bob">> >>)
                /\ Falsy(last[c].override_url))
               => last[c].eff.url = BaseUrlOf(c) \o
                    <<"?", "&request=", "user", "&", "&", "username", "=", "bob">>

\* C10 witness: a dry call given as the string argparse stores, with an action,
\* an argument that is None and a url override, has returned its url.
C10_Witness ==
    /\ last["c1"].op = "_do_request"
    /\ last["c1"].dry = "'False'"
    /\ last["c1"].action = Some(<<"download">>)
    /\ last["c1"].args = Some(<< <<"id", "7">>, <<"username", None>> >>)
    /\ last["c1"].override_url = Some(DownloadUrl)
    /\ last["c1"].eff.url =
          DownloadUrl \o <<"&request=", "download", "&", "&", "id", "=", "7">>

\* A call of download_torrent that is not a dry run for the request pipeline
\* and has no write_location is the last call of client c.
RealWithoutLocation(c) ==
    /\ last[c].op = "download_torrent"
    /\ ~Truthy(last[c].dry)
    /\ ~last[c].write_location.some

\* C11 (the claim as stated): a call of download_torrent whose dry flag the
\* request pipeline treats as not dry and whose write_location is None fails
\* before any request is issued and before any file is opened.
C11_FailsFast ==
    \A c \in Clients :
        RealWithoutLocation(c) =>
            /\ last[c].eff.end = "Exception"
            /\ last[c].eff.gets = << >>
            /\ last[c].eff.file = "untouched"

\* The quick_user GET is among the requests of the last call of client c.
AskedUser(c) == QuickUserUrl(c) \in Range(last[c].eff.gets)

\* Once populated, the cache of a client never changes.
CacheKept == [][\A c \in Clients : user[c].kind # "none" => user'[c] = user[c]]_vars

\* C12 (the claim as stated): whatever the outcomes of the calls, a client that
\* has issued the quick_user request does not issue it again in a later call;
\* and the cache, once populated, never changes.
C12_UserInfoOnce ==
    /\ [][\A c \in Clients :
            (AskedUser(c) /\ last'[c] # last[c]) =>
                QuickUserUrl(c) \notin Range(last'[c].eff.gets)]_vars
    /\ CacheKept

\* C12 (amended): a call of download_torrent that finds the cache populated
\* issues no quick_user request, leaves the cache as it is, and any download
\* request it issues carries the auth key and pass key of the cached record; a
\* call that finds the cache empty issues the quick_user request once, and the
\* cache stays empty exactly when that request fails. Once populated, the cache
\* never changes.
C12_CachedOnce ==
    /\ [](\A c \in Clients :
            last[c].op = "download_torrent" =>
                LET l == last[c] IN
                /\ user[c] = l.eff.user
                /\ l.before.kind # "none" =>
                     /\ l.eff.user = l.before
                     /\ ~AskedUser(c)
                     /\ \A i \in 1..Len(l.eff.gets) :
                          l.eff.gets[i] = DownloadLink(l.torrent_id, l.before.rec)
                /\ l.before.kind = "none" =>
                     /\ Len(l.eff.gets) >= 1 => l.eff.gets[1] = QuickUserUrl(c)
                     /\ \A i \in 2..Len(l.eff.gets) :
                          l.eff.gets[i] = DownloadLink(l.torrent_id, l.eff.user.rec)
                     /\ l.eff.user.kind = "none" =>
                          l.eff.end \in {"Exception", "GGNClientException",
                                         "RequestException"})
    /\ CacheKept

\* C12 witness: the first call of a client filled the cache, and its second
\* call, a real download, found it and sent the cached keys.
C12_Witness ==
    \E c \in Clients :
        /\ ncalls = MaxCalls
        /\ last[c].op = "download_torrent"
        /\ last[c].before.kind = "user"
        /\ last[c].eff.gets = <<DownloadLink(last[c].torrent_id, last[c].before.rec)>>
        /\ last[c].eff.file = "written"

\* A call of _do_request that is not a dry run is the last call of client c.
RealRequest(c) == last[c].op = "_do_request" /\ ~Truthy(last[c].dry)

\* C13: a call of _do_request that is not a dry run and is answered by a
\* non-2xx response, whatever its content type, or by a 2xx JSON response whose
\* status is not "success", raises GGNClientException and returns nothing; the
\* cached user of the client is left as it was.
C13_ApiErrorRaised ==
    \A c \in Clients :
        (/\ RealRequest(c)
         /\ req.answer.net = "ok"
         /\ \/ ~req.answer.ok
            \/ req.answer.json /\ req.answer.status # "success")
        => /\ last[c].eff.end = "GGNClientException"
           /\ last[c].eff.retkind = "raise"
           /\ last[c].eff.user = last[c].before
           /\ user[c] = last[c].before

\* C13 witness: a client holding a user record got a 2xx JSON answer with
\* status "failure", raised the API error and still holds the record.
C13_Witness ==
    /\ RealRequest("c1")
    /\ req.answer.ok /\ req.answer.json /\ req.answer.status = "failure"
    /\ last["c1"].eff.end = "GGNClientException"
    /\ user["c1"].kind = "user"

\* C14: a call of _do_request that is not a dry run and is answered by a 2xx
\* response returns the response field of the body when the content type is
\* JSON and the status is "success", and the raw response, as received, when the
\* content type is not JSON.
C14_ReturnsPayload ==
    \A c \in Clients :
        (RealRequest(c) /\ req.answer.net = "ok" /\ req.answer.ok) =>
            /\ (req.answer.json /\ req.answer.status = "success") =>
                    /\ last[c].eff.end = "return"
                    /\ last[c].eff.retkind = "json"
                    /\ last[c].eff.resp.response = req.answer.response
            /\ ~req.answer.json =>
                    /\ last[c].eff.end = "return"
                    /\ last[c].eff.retkind = "raw"
                    /\ last[c].eff.resp = req.answer

\* C14 witness: a 2xx answer that is not JSON was returned as received.
C14_Witness ==
    /\ RealRequest("c1")
    /\ req.answer.ok /\ ~req.answer.json
    /\ last["c1"].eff.retkind = "raw"
    /\ last["c1"].eff.resp.content = "torrent bytes"

\* The url the last call of client c has built: the one it returned (dry run)
\* or the one it requested.
BuiltUrl(c) ==
    IF last[c].eff.gets # << >> THEN last[c].eff.gets[1] ELSE last[c].eff.url

\* The places of a piece of text in a url
PlacesOf(url, piece) == {p \in 1..Len(url) : url[p] = piece}

\* The arguments of a mapping whose value is not None
Given(args) == {i \in 1..Len(args) : args[i][2] # None}

TableChars == {"[", "\\", "/", "\"", "*", "?", "<", ">", "|", "]", ":"}

\* The downloader has called download_torrent.
Downloaded == last["c1"].op = "download_torrent"

\* The filename stem of the downloader's last download: write_location without
\* the directory in front and the ".torrent" behind.
Stem ==
    LET w == last["c1"].write_location.v
    IN SubSeq(w, Len(WriteLocation) + 1, Len(w) - 1)

\* C16 (the claim as stated): the filename stem is the release title with
\* every character of the table replaced by "_" and the others unchanged.
C16_AllUnderscore ==
    Downloaded =>
        LET title == TitleOf(last["c1"].torrent_id)
        IN /\ Len(Stem) = Len(title)
           /\ \A i \in 1..Len(title) :
                Stem[i] = IF title[i] \in TableChars THEN "_" ELSE title[i]

\* C16 (amended): the filename stem is the release title, of the same length,
\* with every "/" replaced by "-", every other character of the table replaced
\* by "_", and the other characters unchanged; write_location is the directory,
\* the stem and ".torrent".
C16_SlashToDash ==
    Downloaded =>
        LET title == TitleOf(last["c1"].torrent_id)
        IN /\ last["c1"].write_location = Some(WriteLocation \o Stem \o <<".torrent">>)
           /\ Len(Stem) = Len(title)
           /\ \A i \in 1..Len(title) :
                Stem[i] = IF title[i] = "/" THEN "-"
                          ELSE IF title[i] \in TableChars THEN "_"
                          ELSE title[i]

\* C16 witness: a download was made for a title holding every character of the
\* table; its stem holds a "-", underscores and the untouched characters.
C16_Witness ==
    /\ Downloaded
    /\ TableChars \subseteq Range(TitleOf(last["c1"].torrent_id))
    /\ "-" \in Range(Stem) /\ "_" \in Range(Stem) /\ "a" \in Range(Stem)
    /\ Range(Stem) \cap TableChars = {}

\* The process has ended after the scan of the last console was complete.
EndedAfterScan == ScanComplete /\ pc \in {"done", "aborted"}

\* The download loop follows the plan: a call is made only once the scan of the
\* last console is complete, the calls so far are for the first groups of the
\* plan, in its order, and each with the torrent_id recorded for its group.
FollowsPlan ==
    /\ attempts # << >> => ScanComplete
    /\ Len(attempts) <= Len(torrent_data)
    /\ \A i \in 1..Len(attempts) : attempts[i] = torrent_data[i].key
    /\ attempts # << >> =>
          last["c1"].torrent_id = torrent_data[Len(attempts)].value.torrent_id

\* C17 (the claim as stated): no download_torrent call is made before the scan
\* of the last console is complete; the calls are made for groups of the plan
\* only, with the torrent_id recorded for the group; and when the process has
\* ended, every group of the plan has had exactly one call.
C17_OncePerPlannedGroup ==
    /\ FollowsPlan
    /\ EndedAfterScan =>
          \A g \in Keys(torrent_data) :
              Cardinality({i \in 1..Len(attempts) : attempts[i] = g}) = 1

\* The search request that failed, if any: its console and its place in the
\* console's requests.
FailedFetches ==
    {<<c, i>> \in (1..MaxConsoles) \X (1..(MaxPages + 2)) :
        i <= Len(requested[c]) /\ requested[c][i].outcome = "error"}

\* C18: a search request that fails is the last request of the run: it is not
\* made again, no further page is requested, the process is left (the error is
\* not caught) without any download, and the step of the failure and all that
\* follows leave the candidate map as it was.
C18_FetchErrorPropagates ==
    /\ [](\A f \in FailedFetches :
            /\ f[1] = ci
            /\ f[2] = Len(requested[ci])
            /\ requested[ci][f[2]].page = page_number
            /\ pc = "aborted"
            /\ attempts = << >>)
    /\ [][FailedFetches' # {} => torrent_data' = torrent_data]_vars
    /\ [][FailedFetches # {} => requested' = requested]_vars

\* C18 witness: the first page filled the candidate map, the request for the
\* second page failed, and the run ended there.
C18_Witness ==
    /\ pc = "aborted"
    /\ Len(requested[1]) = 2
    /\ requested[1][2].outcome = "error"
    /\ torrent_data # << >>
    /\ attempts = << >>

\* A call of user_profile is the last call of the downloader's client.
ProfileCalled == last["c1"].op = "user_profile"

\* The url of the user request carrying one identifier
ProfileUrl(key, value) ==
    BaseUrlOf("c1") \o <<"?", "&request=", "user", "&", "&", key, "=", value>>

\* C19 (the claim as stated): a call of user_profile given both identifiers, or
\* neither, raises without calling _do_request (no slot taken, no GET); a call
\* given exactly one of them, whatever its value, calls _do_request once, for a
\* url carrying that identifier only.
C19_ExactlyOneIdentifier ==
    ProfileCalled =>
        IF req.user_id.some = req.name.some
        THEN /\ last["c1"].eff.end = "GGNClientException"
             /\ req.invoked = 0
             /\ last["c1"].eff.gets = << >>
        ELSE /\ req.invoked = 1
             /\ last["c1"].eff.gets =
                  IF req.user_id.some
                  THEN <<ProfileUrl("id", ToString(req.user_id.v))>>
                  ELSE <<ProfileUrl("username", req.name.v)>>

\* C20: a call of _do_request issues at most one GET, and exactly one when it
\* is not a dry run and has ended, whether the GET succeeded or failed; the GET
\* belongs to the one run of the body, and while the call waits for the limiter
\* or is about to be admitted it has issued no GET: the wait comes before the
\* GET and never after it.
C20_OneGetPerCall ==
    /\ rcall.gets <= 1
    /\ rcall.gets <= rcall.ran
    /\ rpc \in {"limits", "sleep"} => rcall.gets = 0
    /\ (rpc = "idle" /\ rcall.issued) =>
          rcall.gets = IF Truthy(rcall.dry) THEN 0 ELSE 1

\* C20 witness: a call that had to wait for the limiter made its GET, which
\* failed, and the error reached the caller after that single GET.
C20_Witness ==
    /\ rpc = "idle"
    /\ rcall.blocked
    /\ rcall.result \in {"GGNClientException", "RequestException"}
    /\ rcall.gets = 1

\* A request of the run has failed: a search request, or a download_torrent
\* call that raised.
RequestFailed ==
    \/ FailedFetches # {}
    \/ last["c1"].eff.end \notin {"none", "return"}

SnatchedStep == processed' # NoEntry /\ ~processed'.excluded /\ processed'.IsSnatched
\* The step has run the loop body on another entry.
OtherEntryStep == processed' # NoEntry /\ (processed'.excluded \/ ~processed'.IsSnatched)
\* The loop goes on with the next entry of the group's list, if there is one.
NextEntry ==
    /\ torrentKeys' = Tail(torrentKeys)
    /\ pc' = IF Tail(torrentKeys) = << >> THEN "groups" ELSE "torrents"

\* C22 (the claim as stated): after a non-excluded snatched entry the scan goes
\* on with the next entry of the same group's list: the remaining entries of
\* the list are still to be processed.
C22_SnatchedContinues == [][SnatchedStep => NextEntry]_vars

\* C22 (amended): a non-excluded snatched entry ends the scan of its group's
\* entry list on that page: the remaining entries of the list are not processed
\* and the scan goes on with the next group of the page; any other entry lets
\* the loop go on with the next entry of the list.
C22_SnatchedEndsGroup ==
    /\ [][SnatchedStep => (/\ torrentKeys' = << >> /\ pc' = "groups"
                           /\ groupKeys' = groupKeys
                           /\ processed'.skipped = Tail(torrentKeys))]_vars
    /\ [][OtherEntryStep => NextEntry]_vars

\* C22 witness: a snatched entry was the first of a list of two; the second
\* entry is not to be processed, the scan is back at the groups of the page.
C22_Witness ==
    /\ processed # NoEntry /\ ~processed.excluded /\ processed.IsSnatched
    /\ Len(processed.skipped) = 1
    /\ hist[processed.GroupID].maxSeeders = -1
    /\ torrentKeys = << >>
    /\ pc = "groups"

\* C23: the step that processes a non-excluded snatched entry of group G leaves
\* the map without a candidate for G and with the candidates of all other
\* groups as they were, in their order; if G had no candidate the map is
\* unchanged.
C23_VoidsOnlyItsGroup ==
    [][SnatchedStep =>
        LET G == processed'.GroupID IN
        /\ ~InData(torrent_data', G)
        /\ \A g \in Groups \ {G} :
             /\ InData(torrent_data', g) <=> InData(torrent_data, g)
             /\ InData(torrent_data, g) => Get(torrent_data', g) = Get(torrent_data, g)
        /\ Len(torrent_data') = Len(torrent_data) - (IF InData(torrent_data, G) THEN 1 ELSE 0)
        /\ \A i, j \in 1..Len(torrent_data') :
             i < j => IndexIn(torrent_data, torrent_data'[i].key)
                        < IndexIn(torrent_data, torrent_data'[j].key)
        /\ ~InData(torrent_data, G) => torrent_data' = torrent_data]_vars

\* C23 witness: a snatched entry has removed the candidate of its group, and
\* the candidate of the other group is still in the map.
C23_Witness ==
    /\ processed # NoEntry /\ ~processed.excluded /\ processed.IsSnatched
    /\ processed.had
    /\ ~InData(torrent_data, processed.GroupID)
    /\ Len(torrent_data) = NumGroups - 1

\* C24: when the scan is complete, a group that had a snatched entry and whose
\* last non-excluded entry was not snatched is in the plan, and its candidate
\* holds the largest seeders count among the non-excluded entries processed
\* after the last snatched one.
C24_FreshAfterSnatchedPlanned ==
    ScanComplete =>
        \A g \in Groups :
            (hist[g].anySnatched /\ hist[g].last = "fresh") =>
                /\ InData(torrent_data, g)
                /\ Get(torrent_data, g).seeders = hist[g].sinceVoid

\* C24 witness: the scan is complete and the plan holds a group that was
\* voided by a snatched entry and recorded again from a later fresh entry
\* whose seeders count is below the largest the group had before.
C24_Witness ==
    /\ ScanComplete
    /\ \E g \in Groups :
          /\ hist[g].anySnatched /\ hist[g].last = "fresh"
          /\ InData(torrent_data, g)
          /\ hist[g].sinceVoid < hist[g].maxSeeders

\* the step processed an entry that one of the two filters excluded
ExcludedStep == processed' # NoEntry /\ processed'.excluded

\* the step passed over a group without a "Torrents" key or with an empty one
GroupSkippedStep ==
    /\ pc = "groups" /\ pc' = "groups"
    /\ groupKeys # << >> /\ groupKeys' = Tail(groupKeys)

\* C25: a step that processes an excluded entry (wrong TorrentType or
\* non-empty GameDOXType), snatched or not and whatever its seeders, and a
\* step that passes over a group without usable "Torrents", leave the candidate
\* map exactly as it was; after an excluded entry the scan goes on with the
\* next entry of the same list.
C25_ExcludedLeavesMap ==
    /\ [][ExcludedStep => (torrent_data' = torrent_data /\ NextEntry)]_vars
    /\ [][GroupSkippedStep => torrent_data' = torrent_data]_vars

\* C25 witness: an excluded entry that is marked snatched has been processed
\* and its group's candidate is still in the map.
C25_Witness ==
    /\ processed # NoEntry /\ processed.excluded /\ processed.IsSnatched
    /\ InData(torrent_data, processed.GroupID)

\* the candidate stored under g differs from the one before the step
Stored(g) ==
    /\ InData(torrent_data', g)
    /\ ~InData(torrent_data, g) \/ Get(torrent_data', g) # Get(torrent_data, g)

\* the step ran the loop body on an entry of group g that passed both filters
\* and is not marked snatched
FreshEntryOf(g) ==
    /\ processed' # NoEntry /\ processed'.GroupID = g
    /\ ~processed'.excluded /\ ~processed'.IsSnatched

\* C26: a candidate enters the map, or changes, under group g only in a step
\* that processes an entry of group g which is a "Torrent", has no GameDOXType
\* and is not snatched, and its three fields are that entry's key, title and
\* seeders; so every candidate in the map is keyed by the group of its torrent
\* and carries that torrent's own title.
C26_CandidateFromOneEntry ==
    /\ [][\A g \in Groups : Stored(g) =>
            /\ FreshEntryOf(g)
            /\ Get(torrent_data', g) =
                 [torrent_id |-> processed'.tid,
                  release_title |-> processed'.ReleaseTitle,
                  seeders |-> processed'.Seeders]]_vars
    /\ [](\A i \in 1..Len(torrent_data) :
            LET v == torrent_data[i].value IN
            /\ torrent_data[i].key \in Groups
            /\ v.torrent_id \in TorrentIdsOf(torrent_data[i].key)
            /\ v.release_title = TitleOf(v.torrent_id)
            /\ v.seeders \in SeederCounts)

\* C26 witness: the candidate of a group has been replaced by a later entry of
\* the same group, the second of the group's torrents.
C26_Witness ==
    /\ processed # NoEntry /\ ~processed.excluded /\ ~processed.IsSnatched
    /\ InData(torrent_data, processed.GroupID)
    /\ Get(torrent_data, processed.GroupID).torrent_id = processed.tid
    /\ processed.tid = 10 * processed.GroupID + 2
    /\ hist[processed.GroupID].maxSeeders > processed.Seeders

\* download_torrent has not been invoked on any client: no call is recorded,
\* no user record is cached, no download is in the list of attempts.
NoDownloadInvoked ==
    /\ attempts = << >>
    /\ \A c \in Clients : last[c] = NoCall /\ user[c] = NoCache

\* C27: once a page fetch has failed, download_torrent has been invoked zero
\* times and is never invoked, whatever the candidate map holds; the
\* categories after the one being scanned have had no request and get none.
C27_FailedScanDownloadsNothing ==
    /\ [](FailedFetches # {} =>
            /\ NoDownloadInvoked
            /\ \A c \in 1..MaxConsoles : c > ci => requested[c] = << >>)
    /\ [][FailedFetches # {} =>
            /\ attempts' = attempts /\ last' = last /\ user' = user
            /\ ci' = ci /\ requested' = requested]_vars

\* C27 witness: the scan of the first of two categories recorded a candidate,
\* a later fetch for that category failed, and the run has ended with no
\* download and the second category unscanned.
C27_Witness ==
    /\ FailedFetches # {}
    /\ Len(console_list) = 2 /\ ci = 1
    /\ torrent_data # << >>
    /\ requested[2] = << >>
    /\ NoDownloadInvoked

\* How a request inside download_torrent can end without returning.
RequestErrors == {"RequestException", "GGNClientException"}

\* The last download_torrent call on client c was a real one: its dry flag is
\* falsy and it passed the precondition.
RealCall(c) ==
    /\ last[c].op = "download_torrent"
    /\ ~Truthy(last[c].dry)
    /\ ~MissingLocation(last[c].dry, last[c].write_location)

\* C28: a download_torrent call leaves the destination file opened or written
\* only if it is a real call whose download request returned (and whose
\* quick_user request, if made, returned the user record); a real call whose
\* quick_user request or download request raised leaves the file untouched.
C28_FileOnlyAfterDownload ==
    \A c \in Clients :
        last[c].op = "download_torrent" =>
            /\ last[c].eff.file # "untouched" =>
                  /\ RealCall(c)
                  /\ last[c].eff.download \in {"raw", "json"}
                  /\ last[c].eff.quick \in {"none", "json"}
                  /\ Len(last[c].eff.gets) = IF last[c].eff.quick = "none" THEN 1 ELSE 2
            /\ (\/ last[c].eff.quick \in RequestErrors
                \/ last[c].eff.download \in RequestErrors) =>
                  /\ last[c].eff.file = "untouched"
                  /\ last[c].eff.end \in RequestErrors

\* C28 witness: one real call has written its file after its download request
\* returned, and a real call on the other client, whose user request returned,
\* had its download request fail and left the file untouched.
C28_Witness ==
    /\ RealCall("c1") /\ last["c1"].eff.file = "written"
    /\ last["c1"].eff.download = "raw"
    /\ RealCall("c2") /\ last["c2"].eff.quick = "json"
    /\ last["c2"].eff.download \in RequestErrors
    /\ last["c2"].eff.file = "untouched"

\* The quick_user request of the last download_torrent call of client c raised.
QuickFailed(c) ==
    last[c].op = "download_torrent" /\ last[c].eff.quick \in RequestErrors

\* A call whose user request raised ends with that error, having issued the
\* quick_user GET only, and leaves the cache empty.
FailsWithoutDownload ==
    \A c \in Clients :
        QuickFailed(c) =>
            /\ last[c].eff.end = last[c].eff.quick
            /\ last[c].eff.download = "none"
            /\ last[c].eff.gets = <<QuickUserUrl(c)>>
            /\ last[c].eff.file = "untouched"
            /\ user[c] = NoCache

\* C29 (the claim as stated): when the user request of a download_torrent call
\* fails, the call fails without a download request, the cache stays empty, and
\* the next download_torrent call on that client issues the user request again.
C29_NextCallAsksAgain ==
    /\ []FailsWithoutDownload
    /\ [][\A c \in Clients :
            (QuickFailed(c) /\ last'[c] # last[c]) =>
                QuickUserUrl(c) \in Range(last'[c].eff.gets)]_vars

\* C29 (amended): as above, but the next call issues the user request again
\* only if it gets past the write_location precondition, which is tested
\* before the cache; a next call that fails the precondition issues nothing
\* and leaves the cache empty.
C29_NextAdmittedCallAsksAgain ==
    /\ []FailsWithoutDownload
    /\ [][\A c \in Clients :
            (QuickFailed(c) /\ last'[c] # last[c]) =>
                IF MissingLocation(last'[c].dry, last'[c].write_location)
                THEN /\ last'[c].eff.gets = << >>
                     /\ user'[c] = NoCache
                ELSE /\ last'[c].eff.quick # "none"
                     /\ last'[c].eff.gets # << >>
                     /\ last'[c].eff.gets[1] = QuickUserUrl(c)]_vars

\* C29 witness: both calls were made on the first client; the second found
\* the cache empty, its user request failed, and the cache is still empty.
C29_Witness ==
    /\ ncalls = MaxCalls
    /\ last["c2"] = NoCall
    /\ QuickFailed("c1")
    /\ last["c1"].eff.download = "none"
    /\ user["c1"] = NoCache

\* The starts of the body in the limiter's current period
WindowStarts == {i \in 1..Len(starts) : starts[i] <= since_reset}

\* The limiter decides about the call in progress in this step.
Decides == rpc = "limits" /\ rpc' # "limits"

\* C30: the instances share one budget: the starts of the body in the current
\* period of the limiter, by whichever instance, never exceed Calls; and a call
\* that comes when Calls calls have been counted in a period that is not over
\* is put to sleep, also when it is the first call of its instance.
C30_SharedBudget ==
    /\ [](Cardinality(WindowStarts) <= Calls)
    /\ [](num_calls <= Calls + 1)
    /\ [][(Decides /\ PeriodRemaining > 0 /\ num_calls >= Calls) =>
            (rpc' = "sleep" /\ starts' = starts)]_vars

\* C30 witness: the calls of the first instance have used up the budget, and
\* the first call of the second instance in that period has been put to sleep.
C30_Witness ==
    /\ rpc = "sleep"
    /\ rcall.client = "c2"
    /\ callers = {"c1"}
    /\ Cardinality(WindowStarts) = Calls

\* The call in progress is a dry run.
DryCall == Truthy(rcall.dry)

\* The body of the call in progress starts in this step.
BodyStarts == rcall'.ran = rcall.ran + 1

\* C31: a dry run of _do_request goes through the limiter like any call: its
\* body (which returns the url without a GET) runs only after the limiter has
\* counted the call, in the period running or in a new one; a dry run that
\* comes when Calls calls have been counted in a period that is not over is put
\* to sleep for what the period has left, and while it waits it has not run and
\* has returned nothing; and it gets to run. The slots dry runs have taken
\* count against later calls: in a period where only dry runs have run, the
\* starts of the body never exceed Calls, so a real call that follows Calls of
\* them waits.
C31_DryRunsAreLimited ==
    /\ [][(DryCall /\ BodyStarts) =>
            /\ rpc = "limits" /\ rpc' = "body"
            /\ num_calls' = (IF PeriodRemaining <= 0 THEN 0 ELSE num_calls) + 1
            /\ num_calls' <= Calls]_vars
    /\ [][(DryCall /\ Decides /\ PeriodRemaining > 0 /\ num_calls >= Calls) =>
            /\ rpc' = "sleep" /\ sleep_left' = PeriodRemaining
            /\ rcall'.blocked /\ rcall'.ran = 0]_vars
    /\ []((DryCall /\ rpc \in {"limits", "sleep"}) =>
            (rcall.ran = 0 /\ rcall.result = "none"))
    /\ []((DryCall /\ rpc = "idle") =>
            (rcall.ran = 1 /\ rcall.result = "url" /\ rcall.gets = 0))
    /\ [](dry_only => Cardinality(WindowStarts) <= Calls)
    /\ [][(~DryCall /\ Decides /\ dry_only /\ PeriodRemaining > 0
              /\ Cardinality(WindowStarts) = Calls) => rpc' = "sleep"]_vars
    /\ ((DryCall /\ rpc = "sleep") ~> (DryCall /\ rpc = "body"))

\* C31 witness: Calls dry runs have run in the current period and nothing
\* else, and the real call that followed them is asleep.
C31_Witness ==
    /\ rpc = "sleep"
    /\ ~DryCall
    /\ dry_only
    /\ Cardinality(WindowStarts) = Calls
    /\ since_reset < Period

====
